---- MODULE Spec2Model ----
(***************************************************************************)
(* Model of the Yahoo-news harvest / classify / merge pipeline             *)
(* (main.py, comment_scraper.py).                                          *)
(*                                                                         *)
(* Text is modelled as a sequence of tokens (a token is a character or a   *)
(* fixed phrase), so that strip, startswith, substring tests, join and     *)
(* split are computed, not assumed.  Japanese literals of the source are   *)
(* written in ASCII; the comment beside each gives the original.           *)
(***************************************************************************)
EXTENDS Integers, Sequences, FiniteSets, TLC

VARIABLES
    \* ---- comment harvest (comment_scraper.fetch_comments_from_url)
    site,               \* which family of comment pages the server serves
    c_pc,               \* "loop" | "chunk" | "returned"
    page,               \* page number of the next request
    all_comments_data,  \* ordered kept units (rendered texts)
    seen_comments,      \* set of rendered texts already kept
    outcomes,           \* history: one record per page request made
    chunks,             \* the slices cut by the chunk loop
    merged_columns,     \* the joined text of each slice
    full_text_for_ai,   \* the full concatenation
    \* ---- article-body harvest (main.fetch_article_body_and_comments)
    b_site,             \* which family of article pages the server serves
    has_article_id,     \* whether base_url matches /articles/([a-f0-9]+)
    b_pc,               \* "start" | "loop" | "finish" | "returned"
    page_num,           \* page number of the next request
    full_body_parts,    \* separator + page body, one per page kept
    comment_count,      \* integer of the comment badge, -1 when unknown
    extracted_date_str, \* fallback publish date found on page 1
    b_hist,             \* history: one record per page fetch
    b_ret,              \* the returned (body, comment_count, date)
    \* ---- comment-collection targeting (comment_scraper.run_comment_collection)
    t_row,              \* the article-store row being scanned (list of cells)
    existing_urls,      \* URLs already present in the comment store
    t_pc,               \* "scan" | "loop" | "skipped" | "decided" | "crashed"
    t_item,             \* the entry of sorted_target_rows built for the row
    is_target,          \* the decision
    \* ---- the article store and a run of main
    store,              \* the data rows of the "Yahoo" sheet, in sheet order
    run_pc,             \* where the run is
    GEMINI_CLIENT,      \* TRUE when a client was built from GOOGLE_API_KEY
    prompt_files_ok,    \* whether the prompt files can be read
    cycle,              \* number of the run (the program is re-invoked)
    data_rows,          \* the rows read at the start of the current step
    idx,                \* position of the loop over data_rows (1-based)
    log,                \* history of the current step: one record per row handled
    inputs,             \* which family of inputs the outside world gives the run
    run_hist,           \* history of the run: one record per step finished
    \* ---- sanitization of one answer (main.analyze_with_gemini_and_update_sheet)
    analysis_result,    \* the five values analyze_article_full returned
    final_values,       \* the five values handed to the write of G..K
    s_pc                \* "got" | "done"

cmtVars == <<site, c_pc, page, all_comments_data, seen_comments, outcomes,
             chunks, merged_columns, full_text_for_ai>>

bodyVars == <<b_site, has_article_id, b_pc, page_num, full_body_parts,
              comment_count, extracted_date_str, b_hist, b_ret>>

tgtVars == <<t_row, existing_urls, t_pc, t_item, is_target>>

runVars == <<store, run_pc, GEMINI_CLIENT, prompt_files_ok, cycle, data_rows, idx, log,
             inputs, run_hist>>

sanVars == <<analysis_result, final_values, s_pc>>

vars == <<cmtVars, bodyVars, tgtVars, runVars, sanVars>>

\* what each part of the program leaves alone
exceptComments == <<bodyVars, tgtVars, runVars, sanVars>>
exceptBody     == <<cmtVars, tgtVars, runVars, sanVars>>
exceptTarget   == <<cmtVars, bodyVars, runVars, sanVars>>
exceptRun      == <<cmtVars, bodyVars, tgtVars, sanVars>>
exceptSanitize == <<cmtVars, bodyVars, tgtVars, runVars>>

(***************************************************************************)
(* Text helpers                                                            *)
(***************************************************************************)
NL == "<NL>"            \* "\n"
SP == " "
Whitespace == {NL, SP}

Min(a, b) == IF a < b THEN a ELSE b

\* Python s[i:j] on a sequence, 0-based, clipped at the end.
Slice(s, i, j) == SubSeq(s, i + 1, Min(j, Len(s)))

RECURSIVE Flatten(_)
Flatten(ss) == IF ss = <<>> THEN <<>> ELSE Head(ss) \o Flatten(Tail(ss))

\* sep.join(parts) for token sequences
RECURSIVE Join(_, _)
Join(sep, parts) ==
    IF parts = <<>> THEN <<>>
    ELSE IF Len(parts) = 1 THEN Head(parts)
    ELSE Head(parts) \o sep \o Join(sep, Tail(parts))

\* s.strip(): leading and trailing whitespace removed
RECURSIVE LStrip(_)
LStrip(s) == IF s # <<>> /\ Head(s) \in Whitespace THEN LStrip(Tail(s)) ELSE s
RECURSIVE RStrip(_)
RStrip(s) ==
    IF s # <<>> /\ s[Len(s)] \in Whitespace THEN RStrip(SubSeq(s, 1, Len(s) - 1))
    ELSE s
Strip(s) == RStrip(LStrip(s))

\* `x in text` for a phrase x that is one token
HasToken(text, toks) == \E i \in 1..Len(text) : text[i] \in toks

(***************************************************************************)
(* Comment harvest: comment_scraper.py, fetch_comments_from_url            *)
(***************************************************************************)
TOKUMEI == "tokumei"                \* "匿名", the author used when there is no h2
OPEN    == "[toukousha: "           \* "【投稿者: "
CLOSE   == "]"                      \* "】" (followed by "\n" in the rendering)
\* the five phrases of `ignore` (line 79)
ignore == {"kono comment wo sakujo shimasuka", "comment wo sakujo shimashita",
           "ihan houkoku suru", "hihyouji / houkoku", "toukou wo uketsukemashita"}
chunk_size == 10

\* f"【投稿者: {user_name}】\n{comment_body}"
Render(user_name, comment_body) ==
    <<OPEN>> \o user_name \o <<CLOSE, NL>> \o comment_body

\* max(texts, key=len): the first text of maximal length
RECURSIVE MaxByLen(_)
MaxByLen(texts) ==
    IF Len(texts) = 1 THEN Head(texts)
    ELSE LET rest == MaxByLen(Tail(texts))
         IN  IF Len(Head(texts)) >= Len(rest) THEN Head(texts) ELSE rest

\* An <article> element of a comment page: whether it has an h2, the h2's
\* text, and the texts of its p elements.
mkItem(has, h, p) == [has_h2 |-> has, h2 |-> h, ps |-> p]

UserName(art) == IF art.has_h2 THEN art.h2 ELSE <<TOKUMEI>>
CommentBody(art) == IF art.ps # <<>> THEN MaxByLen(art.ps) ELSE <<>>

\* One pass of the body of `for art in articles` (lines 68-87) on the loop
\* state st = [data, seen, new_cnt].
ProcessItemNoSeenCheck(st, art) ==
    LET user_name    == UserName(art)
        comment_body == CommentBody(art)
        full_text    == Render(user_name, comment_body)
    IN  IF comment_body = <<>> THEN st
        ELSE IF HasToken(comment_body, ignore) THEN st
        ELSE [data |-> Append(st.data, full_text),
              seen |-> st.seen \cup {full_text},
              new_cnt |-> st.new_cnt + 1]

ProcessItem(st, art) ==
    LET user_name    == UserName(art)
        comment_body == CommentBody(art)
        full_text    == Render(user_name, comment_body)
    IN  IF comment_body = <<>> THEN st
        ELSE IF HasToken(comment_body, ignore) THEN st
        ELSE IF full_text \in st.seen THEN st
        ELSE [data |-> Append(st.data, full_text),
              seen |-> st.seen \cup {full_text},
              new_cnt |-> st.new_cnt + 1]

RECURSIVE ProcessPage(_, _)
ProcessPage(st, articles) ==
    IF articles = <<>> THEN st
    ELSE ProcessPage(ProcessItem(st, Head(articles)), Tail(articles))

\* `if new_cnt == 0: break` (line 89)
StopsAfterNever(new_cnt) == FALSE
StopsAfter(new_cnt) == new_cnt = 0

RECURSIVE ChunksFromShort(_, _)
ChunksFromShort(data, i) ==
    IF i >= Len(data) THEN <<>>
    ELSE <<Slice(data, i, i + chunk_size - 1)>>
         \o ChunksFromShort(data, i + chunk_size)

\* for i in range(0, len(data), chunk_size): chunk = data[i : i + chunk_size]
RECURSIVE ChunksFrom(_, _)
ChunksFrom(data, i) ==
    IF i >= Len(data) THEN <<>>
    ELSE <<Slice(data, i, i + chunk_size)>> \o ChunksFrom(data, i + chunk_size)

\* ---- the pages a server may hand out ---------------------------------
NOISE == "ihan houkoku suru"
SmallItems ==
    { mkItem(FALSE, <<>>, << <<"x">> >>),
      mkItem(TRUE, <<TOKUMEI>>, << <<"x">> >>),
      mkItem(TRUE, <<"a">>, << <<CLOSE, NL, "x">> >>),
      mkItem(TRUE, <<"a", CLOSE, NL>>, << <<"x">> >>),
      mkItem(TRUE, <<"a">>, << <<"m">>, <<"x", "y">> >>),
      mkItem(TRUE, <<"a">>, <<>>),
      mkItem(TRUE, <<"a">>, << <<"x", NOISE>> >>),
      mkItem(TRUE, <<"a">>, << <<"x">> >>) }
MaxItems == 2
SmallPages == UNION { [1..n -> SmallItems] : n \in 0..MaxItems }

NumItem(i) == mkItem(TRUE, <<"u">>, << <<ToString(i)>> >>)
Window(s, l) == [k \in 1..l |-> NumItem(s + k)]
Reverse(s) == [k \in 1..Len(s) |-> s[Len(s) + 1 - k]]
WindowStarts == {0, 10, 20}
WindowLens == {3, 10}
WindowPages ==
    { Window(s, l) : s \in WindowStarts, l \in WindowLens }
    \cup { Reverse(Window(s, l)) : s \in WindowStarts, l \in WindowLens }

\* The site of the scenario: pages 1-3 hold 10 unique items each, page 4
\* repeats page 3 in another order, later pages hold new items again.
ScenarioPage(n) ==
    IF n <= 3 THEN Window(10 * (n - 1), 10)
    ELSE IF n = 4 THEN Reverse(Window(20, 10))
    ELSE Window(10 * (n - 2), 10)

Sites == {"small", "bulk", "scenario"}
PagesOf(s, n) ==
    CASE s = "small"    -> SmallPages
      [] s = "bulk"     -> WindowPages
      [] s = "scenario" -> {ScenarioPage(n)}

MaxPage == 5

CommentsInit ==
    /\ site \in Sites
    /\ c_pc = "loop"
    /\ page = 1
    /\ all_comments_data = <<>>
    /\ seen_comments = {}
    /\ outcomes = <<>>
    /\ chunks = <<>>
    /\ merged_columns = <<>>
    /\ full_text_for_ai = <<>>

Outcome(kind, n) == [page |-> page, kind |-> kind, new_cnt |-> n]

\* requests.get answers 404: break (line 59)
FetchNotFound ==
    /\ UNCHANGED exceptComments
    /\ c_pc = "loop" /\ page <= MaxPage
    /\ site # "scenario"
    /\ outcomes' = Append(outcomes, Outcome("404", 0))
    /\ c_pc' = "chunk"
    /\ UNCHANGED <<site, page, all_comments_data, seen_comments, chunks,
                   merged_columns, full_text_for_ai>>

\* requests.get or raise_for_status raises: break (lines 60-61)
FetchError ==
    /\ UNCHANGED exceptComments
    /\ c_pc = "loop" /\ page <= MaxPage
    /\ site # "scenario"
    /\ outcomes' = Append(outcomes, Outcome("error", 0))
    /\ c_pc' = "chunk"
    /\ UNCHANGED <<site, page, all_comments_data, seen_comments, chunks,
                   merged_columns, full_text_for_ai>>

\* a page is received and parsed (lines 63-91)
FetchOk ==
    /\ UNCHANGED exceptComments
    /\ c_pc = "loop" /\ page <= MaxPage
    /\ \E articles \in PagesOf(site, page) :
          IF articles = <<>>
          THEN /\ outcomes' = Append(outcomes, Outcome("empty", 0))
               /\ c_pc' = "chunk"
               /\ UNCHANGED <<page, all_comments_data, seen_comments>>
          ELSE LET st == ProcessPage([data |-> all_comments_data,
                                      seen |-> seen_comments,
                                      new_cnt |-> 0], articles)
               IN  /\ all_comments_data' = st.data
                   /\ seen_comments' = st.seen
                   /\ outcomes' = Append(outcomes, Outcome("ok", st.new_cnt))
                   /\ IF StopsAfter(st.new_cnt)
                      THEN c_pc' = "chunk" /\ page' = page
                      ELSE c_pc' = "loop" /\ page' = page + 1
    /\ UNCHANGED <<site, chunks, merged_columns, full_text_for_ai>>

\* lines 93-104
Chunk ==
    /\ UNCHANGED exceptComments
    /\ c_pc = "chunk"
    /\ chunks' = ChunksFrom(all_comments_data, 0)
    /\ merged_columns' = [k \in 1..Len(chunks') |-> Join(<<NL, NL>>, chunks'[k])]
    /\ full_text_for_ai' = Join(<<NL>>, all_comments_data)
    /\ c_pc' = "returned"
    /\ UNCHANGED <<site, page, all_comments_data, seen_comments, outcomes>>

CommentsNext == FetchNotFound \/ FetchError \/ FetchOk \/ Chunk

\* the comment harvest at rest (another part of the program is running)
CommentsOff ==
    /\ site = "small" /\ c_pc = "off" /\ page = 1
    /\ all_comments_data = <<>> /\ seen_comments = {} /\ outcomes = <<>>
    /\ chunks = <<>> /\ merged_columns = <<>> /\ full_text_for_ai = <<>>

(***************************************************************************)
(* HTTP fetch with retry: main.py, request_with_retry                      *)
(***************************************************************************)
max_retries == 3
AttemptOutcomes == {"ok", "404", "exc"}
AttemptSeqs == [1..max_retries -> AttemptOutcomes]

\* The loop of request_with_retry from attempt index `attempt` (0-based) on
\* the outcomes the transport gives to successive requests.  Returns whether
\* a response is returned and how many requests were sent.
RECURSIVE RequestFrom(_, _)
RequestFrom(outs, attempt) ==
    IF attempt >= max_retries THEN [res |-> "none", requests |-> attempt]
    ELSE LET o == outs[attempt + 1]
         IN  IF o = "404" THEN [res |-> "none", requests |-> attempt + 1]
             ELSE IF o = "ok" THEN [res |-> "ok", requests |-> attempt + 1]
             ELSE IF attempt < max_retries - 1 THEN RequestFrom(outs, attempt + 1)
             ELSE [res |-> "none", requests |-> attempt + 1]

request_with_retry(outs) == RequestFrom(outs, 0)

(***************************************************************************)
(* Article-body harvest: main.py, fetch_article_body_and_comments          *)
(***************************************************************************)
MAX_PAGES == 10
SENTINEL == "honbun shutoku fuka"       \* "本文取得不可"
DASH30   == "-x30"                      \* 'ー'*30 of the page separator
DASHES   == "----"                      \* a paragraph that is a line of 'ー'
DashRuns == {DASH30, DASHES}            \* texts ending in 'ーーーー'
NoDate   == "None"
\* the poll-button labels of line 473
filler == {"sou omou", "sou omowanai", "manabi ga aru", "wakariyasui",
           "atarashii shiten", "watashi mo sou omoimasu"}

PageLabel(n) == ToString(n) \o "page-me"        \* f"{page_num}ページ目"
\* f"\n{page_num}ページ目{'ー'*30}\n"
Separator(n) == <<NL, PageLabel(n), DASH30, NL>>

\* lines 470-474: the paragraph texts kept as page_text_blocks
RECURSIVE TextBlocks(_)
TextBlocks(paras) ==
    IF paras = <<>> THEN <<>>
    ELSE LET text == Head(paras)
         IN  IF text # <<>> /\ ~(Len(text) = 1 /\ text[1] \in filler)
             THEN <<text>> \o TextBlocks(Tail(paras))
             ELSE TextBlocks(Tail(paras))

\* s.split('ーーーー\n')[-1]: what follows the last 'ーーーー\n' of s
SplitLast(s) ==
    LET hits == { i \in 1..(Len(s) - 1) : s[i] \in DashRuns /\ s[i + 1] = NL }
    IN  IF hits = {} THEN s
        ELSE LET last == CHOOSE i \in hits : \A j \in hits : j <= i
             IN  SubSeq(s, last + 2, Len(s))

\* lines 481-484: the loop guard against a repeated page
IsRepeatedPage(parts, n, page_body) ==
    n > 1 /\ Len(parts) > 0 /\ page_body = SplitLast(parts[1])

\* line 490-491
FinalBody(parts) ==
    LET final_body_text == Strip(Flatten(parts))
    IN  IF final_body_text # <<>> THEN final_body_text ELSE <<SENTINEL>>

\* ---- the pages a server may hand out ---------------------------------
ParaLists ==
    { <<>>, << <<"sou omou">> >>, << <<>>, <<"t1">> >>, << <<"t2">> >>,
      << <<"t1">>, <<"t2">> >>, << <<DASHES>>, <<"t1">> >> }
BadgeCounts == {-1, 0, 150}
Dates == {NoDate, "11/5 10:00"}
ArticlePages == 3
mkPage(redir, paras, cnt, date) ==
    [redirected |-> redir, paras |-> paras, cnt |-> cnt, date |-> date]
BodySites == {"small", "long"}
\* "small": an article of at most ArticlePages pages with any content;
\* "long": an article of many pages, page n holding its own text.
BodyPagesOf(s, n) ==
    IF s = "small"
    THEN IF n = 1
         THEN { mkPage(FALSE, p, c, d) : p \in ParaLists, c \in BadgeCounts, d \in Dates }
         ELSE { mkPage(r, p, -1, NoDate) : r \in BOOLEAN, p \in ParaLists }
    ELSE { mkPage(FALSE, << <<"p" \o ToString(n)>> >>, 150, NoDate) }
BodyAttempts(s, n) ==
    IF s = "small"
    THEN IF n <= ArticlePages THEN AttemptSeqs ELSE {[i \in 1..max_retries |-> "404"]}
    ELSE {[i \in 1..max_retries |-> "ok"]}

BodyInit ==
    /\ b_site \in BodySites
    /\ has_article_id \in BOOLEAN
    /\ b_pc = "start"
    /\ page_num = 1
    /\ full_body_parts = <<>>
    /\ comment_count = -1
    /\ extracted_date_str = NoDate
    /\ b_hist = <<>>
    /\ b_ret = [body |-> <<>>, cnt |-> -1, date |-> NoDate]

\* lines 424-426: no article id in the URL
BodyNoId ==
    /\ UNCHANGED exceptBody
    /\ b_pc = "start" /\ ~has_article_id
    /\ b_ret' = [body |-> <<SENTINEL>>, cnt |-> -1, date |-> NoDate]
    /\ b_pc' = "returned"
    /\ UNCHANGED <<b_site, has_article_id, page_num, full_body_parts,
                   comment_count, extracted_date_str, b_hist>>

\* lines 428-429
BodyStart ==
    /\ UNCHANGED exceptBody
    /\ b_pc = "start" /\ has_article_id
    /\ b_pc' = "loop"
    /\ UNCHANGED <<b_site, has_article_id, page_num, full_body_parts,
                   comment_count, extracted_date_str, b_hist, b_ret>>

Fetched(kind, reqs, nblocks, body, kept) ==
    [page |-> page_num, kind |-> kind, requests |-> reqs,
     n_blocks |-> nblocks, body |-> body, kept |-> kept]

\* lines 433-435: request_with_retry gives no response
BodyFetchNone ==
    /\ UNCHANGED exceptBody
    /\ b_pc = "loop" /\ page_num <= MAX_PAGES
    /\ \E outs \in BodyAttempts(b_site, page_num) :
          LET r == request_with_retry(outs)
          IN  /\ r.res = "none"
              /\ b_hist' = Append(b_hist, Fetched("none", r.requests, 0, <<>>, FALSE))
    /\ b_pc' = "finish"
    /\ UNCHANGED <<b_site, has_article_id, page_num, full_body_parts,
                   comment_count, extracted_date_str, b_ret>>

\* lines 433-488: one pass of the loop body on a received page
BodyFetchPage ==
    /\ UNCHANGED exceptBody
    /\ b_pc = "loop" /\ page_num <= MAX_PAGES
    /\ \E outs \in BodyAttempts(b_site, page_num) :
       \E pg \in BodyPagesOf(b_site, page_num) :
          LET r == request_with_retry(outs)
              page_text_blocks == TextBlocks(pg.paras)
              page_body == Join(<<NL>>, page_text_blocks)
              nb == Len(page_text_blocks)
          IN  /\ r.res = "ok"
              /\ IF page_num > 1 /\ pg.redirected
                 THEN \* lines 438-440
                      /\ b_hist' = Append(b_hist,
                              Fetched("redirected", r.requests, 0, <<>>, FALSE))
                      /\ b_pc' = "finish"
                      /\ UNCHANGED <<page_num, full_body_parts, comment_count,
                                     extracted_date_str>>
                 ELSE /\ IF page_num = 1
                         THEN /\ comment_count' = pg.cnt
                              /\ extracted_date_str' = pg.date
                         ELSE UNCHANGED <<comment_count, extracted_date_str>>
                      /\ IF (page_text_blocks = <<>> /\ page_num > 1)
                            \/ IsRepeatedPage(full_body_parts, page_num, page_body)
                         THEN /\ b_hist' = Append(b_hist,
                                     Fetched("ok", r.requests, nb, page_body, FALSE))
                              /\ b_pc' = "finish"
                              /\ UNCHANGED <<page_num, full_body_parts>>
                         ELSE /\ b_hist' = Append(b_hist,
                                     Fetched("ok", r.requests, nb, page_body, TRUE))
                              /\ full_body_parts' =
                                    Append(full_body_parts, Separator(page_num) \o page_body)
                              /\ page_num' = page_num + 1
                              /\ b_pc' = IF page_num = MAX_PAGES THEN "finish" ELSE "loop"
    /\ UNCHANGED <<b_site, has_article_id, b_ret>>

\* lines 490-491
BodyReturn ==
    /\ UNCHANGED exceptBody
    /\ b_pc = "finish"
    /\ b_ret' = [body |-> FinalBody(full_body_parts), cnt |-> comment_count,
                 date |-> extracted_date_str]
    /\ b_pc' = "returned"
    /\ UNCHANGED <<b_site, has_article_id, page_num, full_body_parts,
                   comment_count, extracted_date_str, b_hist>>

BodyNext == BodyNoId \/ BodyStart \/ BodyFetchNone \/ BodyFetchPage \/ BodyReturn

BodyOff ==
    /\ b_site = "small" /\ has_article_id = FALSE /\ b_pc = "off" /\ page_num = 1
    /\ full_body_parts = <<>> /\ comment_count = -1 /\ extracted_date_str = NoDate
    /\ b_hist = <<>> /\ b_ret = [body |-> <<>>, cnt |-> -1, date |-> NoDate]

(***************************************************************************)
(* Comment-collection targeting: comment_scraper.py, run_comment_collection*)
(***************************************************************************)
NISSAN == "nissan"              \* "日産"
SONOTA == "sonota"              \* "その他"
NASHI  == "nashi"               \* "なし"
NA     == "N/A"
NA_NO_BODY == "N/A(No Body)"
Digits == {"0", "1", "5", "9"}
DigitVal(d) == CASE d = "0" -> 0 [] d = "1" -> 1 [] d = "5" -> 5 [] d = "9" -> 9

\* Python row[k] (0-based); rows are sequences of cells
Cell(row, k) == row[k + 1]

\* s.startswith(x), x in s, for a phrase x that is one token
StartsWith(text, tok) == text # <<>> /\ text[1] = tok

\* int(re.sub(r'\D', '', cell)), 0 when that raises (lines 145-149)
RECURSIVE DigitsValue(_, _)
DigitsValue(cell, acc) ==
    IF cell = <<>> THEN acc
    ELSE IF Head(cell) \in Digits
         THEN DigitsValue(Tail(cell), 10 * acc + DigitVal(Head(cell)))
         ELSE DigitsValue(Tail(cell), acc)
ParseCount(cell) ==
    IF \E i \in 1..Len(cell) : cell[i] \in Digits THEN DigitsValue(cell, 0) ELSE 0

\* lines 181-197: the value of is_target
IsTarget(target_company, category, comment_cnt, nissan_neg_text) ==
    IF StartsWith(target_company, NISSAN) /\ ~HasToken(category, {SONOTA})
       /\ comment_cnt > 0
    THEN IF comment_cnt >= 100 THEN TRUE
         ELSE LET val == Strip(nissan_neg_text)
              IN  val # <<>> /\ val \notin {<<NASHI>>, <<NA>>, <<NA_NO_BODY>>, <<"-">>}
    ELSE FALSE

\* ---- the rows the article store may hold ------------------------------
\* rows as main.py lays them out (YAHOO_SHEET_HEADERS): A URL, B title,
\* C date, D source, E body, F comment count, G target company, H category,
\* I sentiment, J related text, K negative text; a row has a twelfth cell
\* when some row of the sheet has a value right of column K
Urls == {<<"u1">>, <<"u2">>}
CountCells == { <<>>, <<"0">>, <<"5">>, <<"1", "0", "0">>,
                <<"1", ",", "5", "0", "0">>, <<"-">> }
CompanyCells == { <<NISSAN>>, <<NISSAN, "jidousha">>, <<"toyota", NISSAN>>, <<>> }
CategoryCells == { <<"kigyou">>, <<SONOTA>>, <<NISSAN, "kanren">>, <<>> }
SentimentCells == { <<"nega">>, <<"x", SONOTA>> }
NegCells == { <<>>, <<SP>>, <<NASHI>>, <<SP, NASHI, SP>>, <<NA>>, <<NA_NO_BODY>>,
              <<"-">>, <<"hihan">> }
ExtraCells == { <<>>, <<"memo">> }
RowLens == {10, 11, 12}
mkRow(n, url, cnt, g, h, i, k, l) ==
    [c \in 1..n |->
        CASE c = 1  -> url
          [] c = 6  -> cnt
          [] c = 7  -> g
          [] c = 8  -> h
          [] c = 9  -> i
          [] c = 11 -> k
          [] c = 12 -> l
          [] OTHER  -> <<"c" \o ToString(c - 1)>>]
SourceRows ==
    { mkRow(12, u, c, g, h, i, k, l) :
        u \in Urls, c \in CountCells, g \in CompanyCells, h \in CategoryCells,
        i \in SentimentCells, k \in NegCells, l \in ExtraCells }
    \cup { mkRow(n, u, c, g, h, <<"nega">>, k, <<>>) :
        n \in RowLens \ {12}, u \in Urls, c \in CountCells, g \in CompanyCells,
        h \in {<<"kigyou">>, <<SONOTA>>}, k \in {<<NASHI>>, <<"hihan">>} }

TargetInit ==
    /\ t_row \in SourceRows
    /\ existing_urls \in {{}, {<<"u1">>}}
    /\ t_pc = "scan"
    /\ t_item = [count |-> 0]
    /\ is_target = FALSE

\* line 142: the row is too short for the scan
TScanShort ==
    /\ UNCHANGED exceptTarget
    /\ t_pc = "scan" /\ Len(t_row) < 11
    /\ t_pc' = "skipped"
    /\ UNCHANGED <<t_row, existing_urls, t_item, is_target>>

\* lines 144-155: the row enters sorted_target_rows with its numeric count
TScan ==
    /\ UNCHANGED exceptTarget
    /\ t_pc = "scan" /\ Len(t_row) >= 11
    /\ t_item' = [count |-> ParseCount(Cell(t_row, 5))]
    /\ t_pc' = "loop"
    /\ UNCHANGED <<t_row, existing_urls, is_target>>

\* lines 169-176: row[11] of a row of 11 cells raises IndexError
TReadFails ==
    /\ UNCHANGED exceptTarget
    /\ t_pc = "loop" /\ Len(t_row) <= 11
    /\ t_pc' = "crashed"
    /\ UNCHANGED <<t_row, existing_urls, t_item, is_target>>

\* line 178
TExisting ==
    /\ UNCHANGED exceptTarget
    /\ t_pc = "loop" /\ Len(t_row) > 11
    /\ Cell(t_row, 0) \in existing_urls
    /\ t_pc' = "skipped"
    /\ UNCHANGED <<t_row, existing_urls, t_item, is_target>>

\* lines 180-197
TDecide ==
    /\ UNCHANGED exceptTarget
    /\ t_pc = "loop" /\ Len(t_row) > 11
    /\ Cell(t_row, 0) \notin existing_urls
    /\ is_target' = IsTarget(Cell(t_row, 7), Cell(t_row, 8), t_item.count,
                             Cell(t_row, 11))
    /\ t_pc' = "decided"
    /\ UNCHANGED <<t_row, existing_urls, t_item>>

TargetNext == TScanShort \/ TScan \/ TReadFails \/ TExisting \/ TDecide

TargetOff ==
    /\ t_row = <<>> /\ existing_urls = {} /\ t_pc = "off"
    /\ t_item = [count |-> 0] /\ is_target = FALSE

(***************************************************************************)
(* The article store: main.py, write_news_list_to_source                   *)
(***************************************************************************)
HTTP == "http"
ArticleUrl(id) == <<HTTP, "s://news.yahoo.co.jp/articles/", id>>
SHUTOKU_FUKA == "shutoku fuka"      \* "取得不可"

\* one element of the list get_yahoo_news_with_selenium returns
mkArticle(url, title, date, source) ==
    [URL |-> url, title |-> title, date |-> date, source |-> source]

\* a data row of the sheet, columns A..K (YAHOO_SHEET_HEADERS)
mkStoreRow(a, b, c, d, e, f, gk) ==
    [A |-> a, B |-> b, C |-> c, D |-> d, E |-> e, F |-> f,
     G |-> gk[1], H |-> gk[2], I |-> gk[3], J |-> gk[4], K |-> gk[5]]
NoGK == << <<>>, <<>>, <<>>, <<>>, <<>> >>
GK(row) == <<row.G, row.H, row.I, row.J, row.K>>
\* the write of G..K does not reach the sheet
WithGKDropped(row, gk) == row
WithGK(row, gk) ==
    [row EXCEPT !.G = gk[1], !.H = gk[2], !.I = gk[3], !.J = gk[4], !.K = gk[5]]

\* line 511: [a['URL'], a['タイトル'], a['投稿日時'], a['ソース']]; the cells
\* E..K of an appended row are empty
NewRow(a) == mkStoreRow(a.URL, a.title, a.date, a.source, <<>>, <<>>, NoGK)

\* line 510
ExistingUrls(rows) ==
    { rows[i].A : i \in { j \in 1..Len(rows) : StartsWith(rows[j].A, HTTP) } }

\* line 511: the articles whose URL is not among the existing URLs
RECURSIVE NewData(_, _)
NewData(articles, existing) ==
    IF articles = <<>> THEN <<>>
    ELSE LET a == Head(articles)
         IN  IF a.URL \notin existing
             THEN <<NewRow(a)>> \o NewData(Tail(articles), existing)
             ELSE NewData(Tail(articles), existing)

\* ---- the lists a search may return -------------------------------------
Articles ==
    { mkArticle(ArticleUrl("a1"), <<"T1">>, <<"d2">>, <<"src">>),
      mkArticle(ArticleUrl("a1"), <<"T2">>, <<SHUTOKU_FUKA>>, <<SHUTOKU_FUKA>>),
      mkArticle(ArticleUrl("a2"), <<"T1">>, <<"d1">>, <<"src">>) }
MaxList == 2
\* the "plain" family: one keyword whose search finds nothing new, or one
\* article with a date, or one article without a readable date
PlainLists ==
    { <<>>,
      << mkArticle(ArticleUrl("a2"), <<"T2">>, <<"2025/11/03 10:00:00">>, <<"src">>) >>,
      << mkArticle(ArticleUrl("a2"), <<"T2">>, <<SHUTOKU_FUKA>>, <<"src">>) >> }
HarvestLists ==
    IF inputs = "plain" THEN PlainLists
    ELSE UNION { [1..n -> Articles] : n \in 0..MaxList }

AppendInit ==
    /\ store = <<>>
    /\ run_pc = "list"
    /\ GEMINI_CLIENT = TRUE
    /\ prompt_files_ok = TRUE
    /\ inputs = "any"
    /\ run_hist = <<>>
    /\ cycle = 1
    /\ data_rows = <<>>
    /\ idx = 1
    /\ log = <<>>

\* lines 506-517: one call of write_news_list_to_source (one keyword of
\* step 1 of main); data_rows holds what the call read from the sheet
WriteNewsList ==
    /\ UNCHANGED exceptRun
    /\ run_pc = "list"
    /\ \E articles \in HarvestLists :
          LET existing_data == store
              new_data == NewData(articles, ExistingUrls(existing_data))
          IN  /\ store' = store \o new_data
              /\ data_rows' = existing_data
              /\ log' = <<[articles |-> articles, appended |-> Len(new_data)]>>
    /\ UNCHANGED <<run_pc, GEMINI_CLIENT, prompt_files_ok, inputs, run_hist, cycle, idx>>

AppendNext == WriteNewsList

RunOff ==
    /\ store = <<>> /\ run_pc = "off" /\ GEMINI_CLIENT = TRUE /\ prompt_files_ok = TRUE
    /\ inputs = "any" /\ run_hist = <<>>
    /\ cycle = 1 /\ data_rows = <<>> /\ idx = 1 /\ log = <<>>

(***************************************************************************)
(* Store writes: main.py, update_sheet_with_retry                          *)
(***************************************************************************)
write_max_retries == 3
\* what ws.update does on one attempt: succeeds, raises APIError with a
\* 500/502/503 in its text, raises another APIError, raises something else
BackendOutcomes == {"ok", "api5xx", "apiOther", "exc"}
\* the "plain" family: the backend works, or is down for the whole write
WriteSeqs ==
    IF inputs = "plain"
    THEN { [i \in 1..write_max_retries |-> o] : o \in {"ok", "exc"} }
    ELSE [1..write_max_retries -> BackendOutcomes]

\* lines 223-240 from attempt index `attempt` (0-based): "ok" when the
\* update was made, "raised" when the APIError is re-raised (line 235),
\* "skipped" when the retries ran out and the skip was logged (line 240)
RECURSIVE UpdateFrom(_, _)
UpdateFrom(outs, attempt) ==
    IF attempt >= write_max_retries THEN [status |-> "skipped", attempts |-> attempt]
    ELSE LET o == outs[attempt + 1]
         IN  IF o = "ok" THEN [status |-> "ok", attempts |-> attempt + 1]
             ELSE IF o = "apiOther" THEN [status |-> "raised", attempts |-> attempt + 1]
             ELSE UpdateFrom(outs, attempt + 1)

update_sheet_with_retry(outs) == UpdateFrom(outs, 0)

\* every way a write can end, over all behaviours of the backend
WriteResults == { update_sheet_with_retry(outs) : outs \in WriteSeqs }

(***************************************************************************)
(* Classification: main.py, analyze_article_full                           *)
(***************************************************************************)
MAX_RETRIES == 3
Keys == {"company_info", "category", "sentiment", "nissan_related", "nissan_negative"}
default_res ==
    [company_info |-> <<NA>>, category |-> <<NA>>, sentiment |-> <<NA>>,
     nissan_related |-> <<NASHI>>, nissan_negative |-> <<NASHI>>]

\* analysis.get(key, default)
Get(analysis, key) ==
    IF key \in DOMAIN analysis THEN analysis[key] ELSE default_res[key]

\* the JSON objects the service may answer with
A_ok ==
    [company_info |-> <<NISSAN>>, category |-> <<"kigyou">>, sentiment |-> <<"nega">>,
     nissan_related |-> <<"x">>, nissan_negative |-> <<"hihan">>]
Analyses ==
    { A_ok,
      [A_ok EXCEPT !.company_info = <<SP>>],
      [k \in {"company_info"} |-> <<"toyota">>],
      [A_ok EXCEPT !.nissan_related = <<"x", "genkyuu wa arimasen">>,
                   !.nissan_negative = <<"None">>] }
\* what one generate_content request ends in: an answer, ResourceExhausted,
\* or any other exception (transport, JSON parsing)
ServiceOutcomes ==
    { [kind |-> "quota"], [kind |-> "error"] }
    \cup { [kind |-> "ok", analysis |-> a] : a \in Analyses }
\* the "plain" family: the service answers at once, is out of quota, or is
\* down for the whole row
ServiceSeqs ==
    IF inputs = "plain"
    THEN { [i \in 1..MAX_RETRIES |-> o] :
             o \in { [kind |-> "ok", analysis |-> A_ok], [kind |-> "quota"],
                      [kind |-> "error"] } }
    ELSE [1..MAX_RETRIES -> ServiceOutcomes]

Result(r, n) == [kind |-> "result", res |-> r, calls |-> n]

\* lines 263-303 with ResourceExhausted handled like any other exception
RECURSIVE AttemptFromNoExit(_, _)
AttemptFromNoExit(outs, attempt) ==
    IF attempt >= MAX_RETRIES THEN Result(default_res, attempt)
    ELSE LET o == outs[attempt + 1]
         IN  IF o.kind = "ok"
             THEN Result([k \in Keys |-> Get(o.analysis, k)], attempt + 1)
             ELSE IF attempt < MAX_RETRIES - 1 THEN AttemptFromNoExit(outs, attempt + 1)
             ELSE Result(default_res, attempt + 1)

\* lines 263-303 from attempt index `attempt` (0-based); kind "exit" is
\* sys.exit(1) of line 296
RECURSIVE AttemptFrom(_, _)
AttemptFrom(outs, attempt) ==
    IF attempt >= MAX_RETRIES THEN Result(default_res, attempt)
    ELSE LET o == outs[attempt + 1]
         IN  IF o.kind = "ok"
             THEN Result([k \in Keys |-> Get(o.analysis, k)], attempt + 1)
             ELSE IF o.kind = "quota"
             THEN [kind |-> "exit", res |-> default_res, calls |-> attempt + 1]
             ELSE IF attempt < MAX_RETRIES - 1 THEN AttemptFrom(outs, attempt + 1)
             ELSE Result(default_res, attempt + 1)

\* lines 244-303
analyze_article_full(text_to_analyze, client, prompt_ok, outs) ==
    IF ~client \/ Strip(text_to_analyze) = <<>> THEN Result(default_res, 0)
    ELSE IF ~prompt_ok THEN Result(default_res, 0)
    ELSE AttemptFrom(outs, 0)

(***************************************************************************)
(* Dates: main.py, parse_post_date and format_datetime                     *)
(***************************************************************************)
Weekdays == {"(getsu)", "(ka)", "(sui)", "(moku)", "(kin)", "(do)", "(nichi)"}
HAISHIN == "haishin"                \* "配信"
\* the day a date text names (the run is on 2025/11/06), 0 for any other
\* text; "11/5 10:00" takes the year of today (lines 99-100)
DayOf(tok) ==
    CASE tok = "2025/11/01 10:00:00" -> 1
      [] tok = "2025/11/03 10:00:00" -> 3
      [] tok = "2025/11/05 10:00:00" -> 5
      [] tok = "11/5 10:00"          -> 5
      [] OTHER                       -> 0
TODAY == 6
three_days_ago == TODAY - 3

\* re.sub(r"\([月火水木金土日]\)$", "", s)
DropWeekday(s) ==
    IF s # <<>> /\ s[Len(s)] \in Weekdays THEN SubSeq(s, 1, Len(s) - 1) ELSE s
\* s.replace('配信', '')
DropHaishin(s) == SelectSeq(s, LAMBDA t : t # HAISHIN)

\* lines 89-106: the day parsed, 0 for None
parse_post_date(raw) ==
    LET s == Strip(DropHaishin(Strip(DropWeekday(Strip(raw)))))
    IN  IF Len(s) = 1 THEN DayOf(s[1]) ELSE 0

\* lines 86-87
format_datetime(day) ==
    CASE day = 1 -> <<"2025/11/01 10:00:00">>
      [] day = 3 -> <<"2025/11/03 10:00:00">>
      [] day = 5 -> <<"2025/11/05 10:00:00">>

(***************************************************************************)
(* Detail harvest: main.py, fetch_details_and_update_sheet                 *)
(***************************************************************************)
\* what fetch_article_body_and_comments may return: the sentinel when no
\* page was received (then no count and no date), or the body of a page
HarvestedBody == FinalBody(<< Separator(1) \o <<"t1">> >>)
FetchReturns ==
    { [body |-> <<SENTINEL>>, cnt |-> -1, date |-> NoDate] }
    \cup { [body |-> HarvestedBody, cnt |-> c, date |-> d] :
              c \in {-1, 7}, d \in Dates }

\* str(fetched_comment_count)
CountStr(n) == <<ToString(n)>>

\* line 621
IsContentFetched(row) == Strip(row.E) # <<>> /\ row.E # <<SENTINEL>>
\* lines 624-625
IsWithinThreeDays(row) ==
    parse_post_date(row.C) # 0 /\ parse_post_date(row.C) >= three_days_ago

\* lines 643-660: the body to store
NewBody(row, f) ==
    IF ~IsContentFetched(row)
    THEN IF f.body # <<SENTINEL>> THEN f.body ELSE <<SENTINEL>>
    ELSE IF IsWithinThreeDays(row) /\ f.body = <<SENTINEL>> THEN <<SENTINEL>>
    ELSE row.E

\* lines 645, 662-673: the posted-at to store
NewPostDate(row, f) ==
    IF ~IsContentFetched(row)
       /\ (HasToken(row.C, {SHUTOKU_FUKA}) \/ Strip(row.C) = <<>>)
       /\ f.date # NoDate
    THEN IF parse_post_date(<<f.date>>) # 0
         THEN format_datetime(parse_post_date(<<f.date>>))
         ELSE Strip(DropWeekday(<<f.date>>))
    ELSE row.C

\* lines 644, 675-679: the comment count to store
NewCommentCount(row, f) ==
    IF f.cnt # -1 /\ CountStr(f.cnt) # row.F THEN CountStr(f.cnt) ELSE row.F

\* lines 643-679: the row after the fetch
Refreshed(row, f) ==
    [row EXCEPT !.C = NewPostDate(row, f), !.E = NewBody(row, f),
                !.F = NewCommentCount(row, f)]

\* the write lands one column to the left, on B..E
WithCFShifted(row, values) ==
    [row EXCEPT !.B = values[1], !.C = values[2], !.D = values[3], !.E = values[4]]

\* lines 683-687: range C{row_num}:F{row_num} takes the four values
\* [new_post_date, source, new_body, new_comment_count]
WithCF(row, values) ==
    [row EXCEPT !.C = values[1], !.D = values[2], !.E = values[3], !.F = values[4]]

\* lines 792-799 of main: the loop over the keywords is over
ListDone ==
    /\ UNCHANGED exceptRun
    /\ run_pc = "list"
    /\ run_pc' = "details"
    /\ run_hist' = Append(run_hist, [step |-> "list", ok |-> TRUE])
    /\ UNCHANGED <<store, GEMINI_CLIENT, prompt_files_ok, inputs, cycle, data_rows,
                   idx, log>>

\* lines 587-603: the sheet is read once
DetailsStart ==
    /\ UNCHANGED exceptRun
    /\ run_pc = "details"
    /\ data_rows' = store
    /\ idx' = 1
    /\ log' = <<>>
    /\ run_pc' = IF Len(store) = 0 THEN "sort" ELSE "detail_loop"
    /\ UNCHANGED <<store, GEMINI_CLIENT, prompt_files_ok, inputs, run_hist, cycle>>

\* the loop moves to the next row, or the step is over
DetailAdvance ==
    /\ idx' = idx + 1
    /\ run_pc' = IF idx = Len(data_rows) THEN "sort" ELSE "detail_loop"

\* lines 618-634: rows passed over (no URL, or harvested and out of the
\* recency window)
DetailSkip ==
    /\ UNCHANGED exceptRun
    /\ run_pc = "detail_loop"
    /\ LET row == data_rows[idx]
       IN  \/ Strip(row.A) = <<>> \/ ~StartsWith(row.A, HTTP)
           \/ (IsContentFetched(row) /\ ~IsWithinThreeDays(row))
    /\ log' = Append(log, [row |-> idx, act |-> "d_skip", write |-> "none"])
    /\ DetailAdvance
    /\ UNCHANGED <<store, GEMINI_CLIENT, prompt_files_ok, inputs, run_hist, cycle,
                   data_rows>>

\* lines 636-689: the article is fetched and the row is written if a value
\* changed
DetailFetch ==
    /\ UNCHANGED exceptRun
    /\ run_pc = "detail_loop"
    /\ LET row == data_rows[idx]
       IN  /\ Strip(row.A) # <<>> /\ StartsWith(row.A, HTTP)
           /\ ~(IsContentFetched(row) /\ ~IsWithinThreeDays(row))
           /\ \E f \in FetchReturns : \E wr \in WriteResults :
                 LET new == Refreshed(row, f)
                     needs_update_to_sheet == new # row
                     w == IF needs_update_to_sheet THEN wr.status ELSE "none"
                 IN  /\ wr.status # "ok" => needs_update_to_sheet
                     /\ log' = Append(log, [row |-> idx, act |-> "d_fetch",
                                            write |-> w, fetched |-> f])
                     /\ store' = IF w = "ok"
                                 THEN [store EXCEPT ![idx] =
                                         WithCF(@, <<new.C, row.D, new.E, new.F>>)]
                                 ELSE store
                     /\ IF w = "raised"
                        THEN run_pc' = "crashed" /\ idx' = idx
                        ELSE DetailAdvance
    /\ UNCHANGED <<GEMINI_CLIENT, prompt_files_ok, inputs, run_hist, cycle, data_rows>>

(***************************************************************************)
(* Sort: main.py, sort_yahoo_sheet                                         *)
(***************************************************************************)
\* lines 530-552: the find-and-replace requests on column C (the weekday
\* in brackets removed, the ends trimmed)
CleanDate(c) == Strip(SelectSeq(c, LAMBDA t : t \notin Weekdays))

\* how the sheet ranks a cell of column C in a descending sort: texts that
\* are no date first, dates by their time, empty cells last
SortKey(c) ==
    IF Strip(c) = <<>> THEN -1
    ELSE IF parse_post_date(c) = 0 THEN 100
    ELSE parse_post_date(c)

\* rows in descending order of the key of column C, equal keys in their
\* old order
RECURSIVE InsertDesc(_, _)
InsertDesc(row, sorted) ==
    IF sorted = <<>> THEN <<row>>
    ELSE IF SortKey(row.C) > SortKey(Head(sorted).C)
         THEN <<row>> \o sorted
         ELSE <<Head(sorted)>> \o InsertDesc(row, Tail(sorted))
RECURSIVE SortDesc(_)
SortDesc(rows) ==
    IF rows = <<>> THEN <<>>
    ELSE InsertDesc(rows[Len(rows)], SortDesc(SubSeq(rows, 1, Len(rows) - 1)))

\* the sort request leaves the rows as they are
SortDescIgnored(rows) == rows

\* line 576: worksheet.sort((3, 'des'), range=A2:K{last_row})
SortedRows(rows) == SortDesc(rows)

\* lines 519-583: each of the two requests is made or fails; a failure is
\* printed and the function goes on
SortSheet ==
    /\ UNCHANGED exceptRun
    /\ run_pc = "sort"
    /\ \E replace_ok \in BOOLEAN : \E sort_ok \in BOOLEAN :
          LET cleaned == IF replace_ok
                         THEN [i \in 1..Len(store) |->
                                 [store[i] EXCEPT !.C = CleanDate(@)]]
                         ELSE store
          IN  IF Len(store) = 0
              THEN /\ replace_ok /\ sort_ok
                   /\ store' = store
                   /\ run_hist' = Append(run_hist, [step |-> "sort", ok |-> TRUE])
              ELSE /\ store' = IF sort_ok THEN SortedRows(cleaned) ELSE cleaned
                   /\ run_hist' = Append(run_hist, [step |-> "sort", ok |-> sort_ok])
    /\ run_pc' = "start"
    /\ UNCHANGED <<GEMINI_CLIENT, prompt_files_ok, inputs, cycle, data_rows, idx, log>>

(***************************************************************************)
(* Enrichment cycle: main.py, analyze_with_gemini_and_update_sheet         *)
(***************************************************************************)
\* the phrases of line 758
Denylist == {"not mentioned", "no mention", "hakken saremasen deshita",
             "genkyuu wa arimasen", "kisai sarete imasen"}
LowerTok(t) ==
    IF t \in {"None", "NONE", "none"} THEN "none"
    ELSE IF t = "No mention" THEN "no mention" ELSE t
Lower(text) == [i \in 1..Len(text) |-> LowerTok(text[i])]

\* one pass of the loop with the test of line 763 left out
SanitizeStepNoNone(st, check_text) ==
    IF HasToken(check_text, Denylist)
    THEN [rel |-> IF check_text = st.rel THEN <<NASHI>> ELSE st.rel,
          neg |-> IF check_text = st.neg THEN <<NASHI>> ELSE st.neg]
    ELSE st

\* one pass of the loop of lines 756-765 on st = [rel, neg]
SanitizeStep(st, check_text) ==
    LET st1 == IF HasToken(check_text, Denylist)
               THEN [rel |-> IF check_text = st.rel THEN <<NASHI>> ELSE st.rel,
                     neg |-> IF check_text = st.neg THEN <<NASHI>> ELSE st.neg]
               ELSE st
    IN  IF Lower(check_text) = <<"none">>
        THEN [rel |-> IF check_text = st1.rel THEN <<NASHI>> ELSE st1.rel,
              neg |-> IF check_text = st1.neg THEN <<NASHI>> ELSE st1.neg]
        ELSE st1

\* lines 756-765: for check_text in [final_nissan_rel, final_nissan_neg]
Sanitize(rel, neg) ==
    SanitizeStep(SanitizeStep([rel |-> rel, neg |-> neg], rel), neg)

\* lines 743-771: the five values written to G..K
FinalValues(res) ==
    LET s2 == Sanitize(res.nissan_related, res.nissan_negative)
    IN  <<res.company_info, res.category, res.sentiment, s2.rel, s2.neg>>

NoBodyValues == << <<NA_NO_BODY>>, <<NA>>, <<NA>>, <<NA>>, <<NA>> >>

\* line 723 left out: no row counts as complete
AllFilledIgnored(row) == FALSE

\* line 723: all(str(v).strip() for v in current_vals)
AllFilled(row) == \A i \in 1..5 : Strip(GK(row)[i]) # <<>>

\* line 726
NoBody(row) == Strip(row.E) = <<>> \/ row.E = <<SENTINEL>>

\* ---- the stores a cycle may start from --------------------------------
MaxRows == 2
MaxCycles == 2
Bodies == { <<"B">>, <<SENTINEL>>, <<>> }
FreshRow(i, body) ==
    mkStoreRow(ArticleUrl("a" \o ToString(i)), <<"T1">>, <<"d1">>, <<"src">>,
               body, <<>>, NoGK)
InitStores ==
    UNION { { [i \in 1..n |-> FreshRow(i, f[i])] : f \in [1..n -> Bodies] }
            : n \in 0..MaxRows }

EnrichInit ==
    /\ store \in InitStores
    /\ run_pc = "start"
    /\ GEMINI_CLIENT \in BOOLEAN
    /\ prompt_files_ok \in BOOLEAN
    /\ inputs = "any"
    /\ run_hist = <<>>
    /\ cycle = 1
    /\ data_rows = <<>>
    /\ idx = 1
    /\ log = <<>>

Entry(act, calls, quota_at, wr, vals) ==
    [row |-> idx, act |-> act, calls |-> calls, quota_at |-> quota_at,
     write |-> wr.status, attempts |-> wr.attempts, values |-> vals]
NoWrite == [status |-> "none", attempts |-> 0]

\* lines 697-709: the sheet is read once
AnalyzeStart ==
    /\ UNCHANGED exceptRun
    /\ run_pc = "start"
    /\ data_rows' = store
    /\ idx' = 1
    /\ run_pc' = IF Len(store) = 0 THEN "done" ELSE "analyze"
    /\ log' = <<>>
    /\ UNCHANGED <<store, GEMINI_CLIENT, prompt_files_ok, inputs, run_hist, cycle>>

\* the request, among the first n, on which the service first signalled
\* quota exhaustion; 0 when it did not
QuotaAt(souts, n) ==
    LET hits == { k \in 1..n : souts[k].kind = "quota" }
    IN  IF hits = {} THEN 0 ELSE CHOOSE k \in hits : \A j \in hits : k <= j

\* every way the classification of one text can end, over all behaviours
\* of the service
AnalysisResults(text) ==
    { LET r == analyze_article_full(text, GEMINI_CLIENT, prompt_files_ok, souts)
      IN  [kind |-> r.kind, res |-> r.res, calls |-> r.calls,
           quota_at |-> QuotaAt(souts, r.calls)]
        : souts \in ServiceSeqs }

\* the write of one row's G..K (wr: how update_sheet_with_retry ended) and
\* what follows it
WriteGK(act, calls, quota_at, vals, wr) ==
        /\ log' = Append(log, Entry(act, calls, quota_at, wr, vals))
        /\ store' = IF wr.status = "ok"
                    THEN [store EXCEPT ![idx] = WithGK(store[idx], vals)]
                    ELSE store
        /\ IF wr.status = "raised"
           THEN run_pc' = "crashed" /\ idx' = idx
           ELSE /\ idx' = idx + 1
                /\ run_pc' = IF idx = Len(data_rows) THEN "done" ELSE "analyze"

\* lines 720-724: the row is complete
AnalyzeSkip ==
    /\ UNCHANGED exceptRun
    /\ run_pc = "analyze"
    /\ AllFilled(data_rows[idx])
    /\ log' = Append(log, Entry("skip", 0, 0, NoWrite, NoGK))
    /\ idx' = idx + 1
    /\ run_pc' = IF idx = Len(data_rows) THEN "done" ELSE "analyze"
    /\ UNCHANGED <<store, GEMINI_CLIENT, prompt_files_ok, inputs, run_hist, cycle, data_rows>>

\* lines 726-734: no body to analyze
AnalyzeNoBody ==
    /\ UNCHANGED exceptRun
    /\ run_pc = "analyze"
    /\ ~AllFilled(data_rows[idx])
    /\ NoBody(data_rows[idx])
    /\ \E wr \in WriteResults : WriteGK("nobody", 0, 0, NoBodyValues, wr)
    /\ UNCHANGED <<GEMINI_CLIENT, prompt_files_ok, inputs, run_hist, cycle, data_rows>>

\* lines 736-773: the row is analyzed and its result written
AnalyzeRow ==
    /\ UNCHANGED exceptRun
    /\ run_pc = "analyze"
    /\ ~AllFilled(data_rows[idx])
    /\ ~NoBody(data_rows[idx])
    /\ Strip(data_rows[idx].A) # <<>>
    /\ \E r \in AnalysisResults(data_rows[idx].E) : \E wr \in WriteResults :
          /\ r.kind = "result"
          /\ WriteGK("analyze", r.calls, r.quota_at, FinalValues(r.res), wr)
    /\ UNCHANGED <<GEMINI_CLIENT, prompt_files_ok, inputs, run_hist, cycle, data_rows>>

\* line 296: ResourceExhausted ends the process
AnalyzeQuotaExit ==
    /\ UNCHANGED exceptRun
    /\ run_pc = "analyze"
    /\ ~AllFilled(data_rows[idx])
    /\ ~NoBody(data_rows[idx])
    /\ Strip(data_rows[idx].A) # <<>>
    /\ \E r \in AnalysisResults(data_rows[idx].E) :
          /\ r.kind = "exit"
          /\ log' = Append(log, Entry("analyze", r.calls, r.quota_at, NoWrite, NoGK))
    /\ run_pc' = "exited"
    /\ UNCHANGED <<store, GEMINI_CLIENT, prompt_files_ok, inputs, run_hist, cycle, data_rows, idx>>

\* the program is invoked again (a scheduled run) on the store as it is;
\* the new process has none of the old one's locals
NextRun ==
    /\ UNCHANGED exceptRun
    /\ run_pc \in {"done", "exited", "crashed"}
    /\ cycle < MaxCycles
    /\ cycle' = cycle + 1
    /\ run_pc' = "start"
    /\ data_rows' = <<>>
    /\ idx' = 1
    /\ log' = <<>>
    /\ run_hist' = <<>>
    /\ UNCHANGED <<store, GEMINI_CLIENT, prompt_files_ok, inputs>>

EnrichNext ==
    AnalyzeStart \/ AnalyzeSkip \/ AnalyzeNoBody \/ AnalyzeRow \/ AnalyzeQuotaExit
    \/ NextRun

\* ---- the sanitization on its own ---------------------------------------
\* texts the service may answer for the two mention fields
MentionTexts ==
    { <<NASHI>>, <<"hihan">>, <<"None">>, <<"NONE">>, <<"none">>, <<SP, "None">>,
      <<"x", "none">>, <<"x", "genkyuu wa arimasen">>, <<"not mentioned">>,
      <<"No mention">> }

SanitizeInit ==
    /\ analysis_result \in
          { [A_ok EXCEPT !.nissan_related = r, !.nissan_negative = n] :
              r \in MentionTexts, n \in MentionTexts }
    /\ final_values = NoGK
    /\ s_pc = "got"

\* lines 743-765 on one answer
SanitizeAnswer ==
    /\ UNCHANGED exceptSanitize
    /\ s_pc = "got"
    /\ final_values' = FinalValues(analysis_result)
    /\ s_pc' = "done"
    /\ UNCHANGED analysis_result

SanitizeNext == SanitizeAnswer

SanitizeOff == analysis_result = default_res /\ final_values = NoGK /\ s_pc = "off"

(***************************************************************************)
(* A run of main: list, details, sort, enrichment                          *)
(***************************************************************************)
\* the rows earlier runs may have left in the store
Harvested(url, date, gk) ==
    mkStoreRow(url, <<"T1">>, date, <<"src">>, HarvestedBody, <<"7">>, gk)
Unavailable(url, date) ==
    mkStoreRow(url, <<"T1">>, date, <<"src">>, <<SENTINEL>>, <<>>, NoBodyValues)
EarlierRows ==
    { Harvested(ArticleUrl("a1"), d, gk) :
        d \in { <<"2025/11/01 10:00:00">>, <<"2025/11/05 10:00:00">> },
        gk \in { NoGK, FinalValues(A_ok) } }
    \cup { Unavailable(ArticleUrl("a1"), d) :
        d \in { <<"2025/11/01 10:00:00">>, <<"2025/11/05 10:00:00">>,
                <<SHUTOKU_FUKA>> } }
    \cup { mkStoreRow(ArticleUrl("a1"), <<"T1">>, d, <<"src">>, <<>>, <<>>, NoGK) :
        d \in { <<"2025/11/01 10:00:00">>, <<SHUTOKU_FUKA>> } }
MainStores == { <<>> } \cup { <<r>> : r \in EarlierRows }

MainInit ==
    /\ store \in MainStores
    /\ run_pc = "list"
    /\ GEMINI_CLIENT = TRUE
    /\ prompt_files_ok = TRUE
    /\ cycle = 1
    /\ data_rows = <<>>
    /\ idx = 1
    /\ log = <<>>
    /\ inputs = "plain"
    /\ run_hist = <<>>

\* lines 791-808 of main
MainNext ==
    \/ WriteNewsList \/ ListDone
    \/ DetailsStart \/ DetailSkip \/ DetailFetch
    \/ SortSheet
    \/ AnalyzeStart \/ AnalyzeSkip \/ AnalyzeNoBody \/ AnalyzeRow \/ AnalyzeQuotaExit

\* ---- the program is run again and again on the store it left ------------
\* a scheduled invocation of main after the previous process has ended
\* (finished, exited on quota, or crashed); it starts with the keyword loop
MainAgain ==
    /\ UNCHANGED exceptRun
    /\ run_pc \in {"done", "exited", "crashed"}
    /\ cycle < MaxCycles
    /\ cycle' = cycle + 1
    /\ run_pc' = "list"
    /\ data_rows' = <<>>
    /\ idx' = 1
    /\ log' = <<>>
    /\ run_hist' = <<>>
    /\ UNCHANGED <<store, GEMINI_CLIENT, prompt_files_ok, inputs>>

\* the first of the runs starts as a run of main does
PipelineInit == MainInit

PipelineNext == MainNext \/ MainAgain

(***************************************************************************)
(* Specifications: one per part of the program                             *)
(***************************************************************************)
InitComments == CommentsInit /\ BodyOff /\ TargetOff /\ RunOff /\ SanitizeOff
SpecComments == InitComments /\ [][CommentsNext]_vars

InitBody == BodyInit /\ CommentsOff /\ TargetOff /\ RunOff /\ SanitizeOff
SpecBody == InitBody /\ [][BodyNext]_vars

InitTarget == TargetInit /\ CommentsOff /\ BodyOff /\ RunOff /\ SanitizeOff
SpecTarget == InitTarget /\ [][TargetNext]_vars

InitAppend == AppendInit /\ CommentsOff /\ BodyOff /\ TargetOff /\ SanitizeOff
SpecAppend == InitAppend /\ [][AppendNext]_vars

Init == EnrichInit /\ CommentsOff /\ BodyOff /\ TargetOff /\ SanitizeOff
Next == EnrichNext
Spec == Init /\ [][Next]_vars

InitMain == MainInit /\ CommentsOff /\ BodyOff /\ TargetOff /\ SanitizeOff
SpecMain == InitMain /\ [][MainNext]_vars

InitPipeline ==
    PipelineInit /\ CommentsOff /\ BodyOff /\ TargetOff /\ SanitizeOff
SpecPipeline == InitPipeline /\ [][PipelineNext]_vars

InitSanitize == SanitizeInit /\ CommentsOff /\ BodyOff /\ TargetOff /\ RunOff
SpecSanitize == InitSanitize /\ [][SanitizeNext]_vars


(***************************************************************************)
(* Claims on the comment harvest                                           *)
(***************************************************************************)
Last(s) == s[Len(s)]
Barren(o) == o.kind \in {"404", "error", "empty"} \/ (o.kind = "ok" /\ o.new_cnt = 0)
Productive(o) == o.kind = "ok" /\ o.new_cnt > 0

\* C3: the ordered result of a comment harvest never holds two units with
\* the same rendered author+body text, whatever pages were served; the set
\* of seen texts is exactly the set of kept units.
C3_NoDuplicateUnits ==
    /\ \A i, j \in 1..Len(all_comments_data) :
          i # j => all_comments_data[i] # all_comments_data[j]
    /\ seen_comments = { all_comments_data[i] : i \in 1..Len(all_comments_data) }

\* a later page made only of items already kept was served and added nothing
C3_Witness ==
    /\ site = "bulk"
    /\ Len(outcomes) >= 2
    /\ Last(outcomes).kind = "ok"
    /\ Last(outcomes).new_cnt = 0
    /\ Len(all_comments_data) >= 10

\* C4: pages are requested as 1, 2, 3, ... ; every page before the last one
\* requested yielded new items; the loop goes on only after a page that
\* yielded new items and is left only after a page that is not found, fails,
\* or yields no new item; on the scenario site exactly four pages are
\* requested and exactly 30 units are kept.
C4_StopsAtFirstBarrenPage ==
    /\ \A i \in 1..Len(outcomes) : outcomes[i].page = i
    /\ \A i \in 1..(Len(outcomes) - 1) : Productive(outcomes[i])
    /\ c_pc = "loop" => (outcomes = <<>> \/ Productive(Last(outcomes)))
    /\ c_pc = "loop" => page = Len(outcomes) + 1
    /\ c_pc # "loop" => (outcomes # <<>> /\ Barren(Last(outcomes)))
    /\ (site = "scenario" /\ c_pc # "loop")
          => (Len(outcomes) = 4 /\ Len(all_comments_data) = 30)

C4_Witness ==
    /\ site = "scenario"
    /\ c_pc = "returned"
    /\ Len(outcomes) = 4
    /\ Last(outcomes) = [page |-> 4, kind |-> "ok", new_cnt |-> 0]

\* C5: the returned chunk list cuts the kept units into consecutive chunks
\* of 10 in first-seen order: ceil(n/10) chunks, all but the last of exactly
\* 10 units, the last of 1..10, their concatenation is the unit list, and
\* each returned column is the join of its chunk.
C5_ChunksOfTen ==
    c_pc = "returned" =>
        LET n == Len(all_comments_data)
            m == Len(chunks)
        IN  /\ m = (n + 9) \div 10
            /\ \A k \in 1..(m - 1) : Len(chunks[k]) = 10
            /\ m > 0 => (Len(chunks[m]) >= 1 /\ Len(chunks[m]) <= 10)
            /\ Flatten(chunks) = all_comments_data
            /\ Len(merged_columns) = m
            /\ \A k \in 1..m : merged_columns[k] = Join(<<NL, NL>>, chunks[k])

\* 13 kept units: one full chunk and a last chunk of 3
C5_Witness ==
    /\ c_pc = "returned"
    /\ Len(all_comments_data) = 13
    /\ Len(merged_columns) = 2

\* the number of requests the harvest has sent for comment page p
RequestsFor(p) == Cardinality({ j \in 1..Len(outcomes) : outcomes[j].page = p })

\* C16 (comment pages): a not-found answer ends the pagination after one
\* request for that page; a page whose request failed with a transport
\* error is given up only after max_retries requests for it.
C16_TransportErrorRetried ==
    \A i \in 1..Len(outcomes) :
        /\ outcomes[i].kind = "404" => RequestsFor(outcomes[i].page) = 1
        /\ outcomes[i].kind = "error" =>
              (c_pc # "loop" => RequestsFor(outcomes[i].page) = max_retries)

(***************************************************************************)
(* Claims on the article-body harvest                                      *)
(***************************************************************************)
\* C8: when no text block was obtained from any page fetched (no article
\* id, first fetch failed, or every fetched page empty, page 1 included),
\* the returned body is exactly the sentinel.
C8_SentinelWhenNoBody ==
    (b_pc = "returned" /\ \A i \in 1..Len(b_hist) : b_hist[i].n_blocks = 0)
        => b_ret.body = <<SENTINEL>>

\* C15: a page N > 1 whose body equals the body of page N-1 ends the
\* pagination and is not appended; the harvest stops at the first page
\* after page 1 without body text; at most MAX_PAGES pages are fetched.
C15_NoPageTwiceInARow ==
    /\ Len(b_hist) <= MAX_PAGES
    /\ \A i \in 2..Len(b_hist) :
          /\ (b_hist[i].kind = "ok" /\ b_hist[i].body = b_hist[i - 1].body)
                => (~b_hist[i].kept /\ b_pc \in {"finish", "returned"})
          /\ (b_hist[i].kind = "ok" /\ b_hist[i].n_blocks = 0)
                => (~b_hist[i].kept /\ b_pc \in {"finish", "returned"})

(***************************************************************************)
(* Claims on the comment-collection targeting                              *)
(***************************************************************************)
NegPresent(text) ==
    Strip(text) # <<>> /\ Strip(text) \notin {<<NASHI>>, <<NA>>, <<NA_NO_BODY>>, <<"-">>}

\* C6: a row of the article store that is not yet in the comment store is
\* made a target exactly when (target company starts with the prefix,
\* category does not contain the excluded category, count > 0) and
\* (count >= 100 or the negative text is present and no empty sentinel);
\* a row with zero comments is never a target.
C6_TargetingRule ==
    LET target_company == Cell(t_row, 6)       \* column G
        category       == Cell(t_row, 7)       \* column H
        neg            == Cell(t_row, 10)      \* column K
        cnt            == ParseCount(Cell(t_row, 5))
        targeted       == t_pc = "decided" /\ is_target
    IN  t_pc \in {"decided", "crashed"} =>
            /\ targeted <=>
                  ( /\ target_company # <<>> /\ Head(target_company) = NISSAN
                    /\ \A i \in 1..Len(category) : category[i] # SONOTA
                    /\ cnt > 0
                    /\ (cnt >= 100 \/ NegPresent(neg)) )
            /\ cnt = 0 => ~targeted

\* C19: a row that passes the length guard is never indexed at or beyond
\* its length, and the decision is taken on the cells where the store keeps
\* the target company (G), the category (H) and the negative text (K).
C19_ReadsWhereStoreKeeps ==
    /\ t_pc # "crashed"
    /\ t_pc = "decided" =>
          is_target = IsTarget(Cell(t_row, 6), Cell(t_row, 7), t_item.count,
                               Cell(t_row, 10))

(***************************************************************************)
(* Claims on the article store                                             *)
(***************************************************************************)
\* C1: after any number of calls of write_news_list_to_source with any
\* harvested lists, no two data rows of the store have the same URL.
C1_UniqueUrls ==
    \A i, j \in 1..Len(store) : i # j => store[i].A # store[j].A

\* ---- the enrichment cycle ---------------------------------------------
\* the five enrichment fields of a row, as read at the start of the cycle
ReadGK(e) == GK(data_rows[e.row])
Untouched(e) ==
    /\ e.calls = 0
    /\ e.write = "none"
    /\ GK(store[e.row]) = ReadGK(e)

\* C2 (as stated): a row whose five enrichment fields are all non-empty
\* when the cycle reads the store is not submitted to the classification
\* service and its five fields are not rewritten in that cycle.
C2_NonEmptyRowNotResubmitted ==
    \A k \in 1..Len(log) :
        (\A i \in 1..5 : ReadGK(log[k])[i] # <<>>) => Untouched(log[k])

\* C2 (amended): a row whose five enrichment fields are all non-empty after
\* whitespace is trimmed when the cycle reads the store is not submitted to
\* the classification service and its five fields are not rewritten in that
\* cycle.
C2_FilledRowNotResubmitted ==
    \A k \in 1..Len(log) :
        (\A i \in 1..5 : Strip(ReadGK(log[k])[i]) # <<>>) => Untouched(log[k])

\* a second cycle has passed over a row that the first cycle completed with
\* the service's answer
C2_Witness ==
    /\ cycle = 2
    /\ \E k \in 1..Len(log) :
          /\ log[k].act = "skip"
          /\ ReadGK(log[k]) = FinalValues(A_ok)
          /\ GK(store[log[k].row]) = FinalValues(A_ok)

\* C7: every write makes at most 3 attempts and never raises to its caller;
\* after a failed write the cycle continues with the next row and the run
\* is not aborted.
C7_WriteNeverRaises ==
    /\ run_pc # "crashed"
    /\ \A k \in 1..Len(log) :
          /\ log[k].attempts <= 3
          /\ log[k].write # "raised"

\* C10: when the service signals quota exhaustion on a call, that call is
\* the last one of the run and no write follows it: the run has exited, the
\* row of the call and the rows after it are as they were read, and every
\* row written earlier in the run holds the values written.
C10_QuotaExhaustionEndsRun ==
    \A k \in 1..Len(log) :
        log[k].quota_at # 0 =>
            /\ run_pc = "exited"
            /\ k = Len(log)
            /\ log[k].calls = log[k].quota_at
            /\ log[k].write = "none"
            /\ \A r \in log[k].row..Len(data_rows) : store[r] = data_rows[r]
            /\ \A j \in 1..(k - 1) :
                  log[j].write = "ok" => GK(store[log[j].row]) = log[j].values

\* the run has exited on a quota signal after an earlier row was written
C10_Witness ==
    /\ run_pc = "exited"
    /\ Len(log) = 2
    /\ log[1].write = "ok"
    /\ log[1].act = "analyze"
    /\ log[2].quota_at # 0
    /\ GK(store[1]) = log[1].values

\* C12: when no credential is configured, no classification request is made
\* and the five enrichment fields of a row that has a harvested body are not
\* changed.
C12_NoCredentialNoEnrichment ==
    ~GEMINI_CLIENT =>
        \A k \in 1..Len(log) :
            ~NoBody(data_rows[log[k].row]) =>
                /\ log[k].calls = 0
                /\ GK(store[log[k].row]) = ReadGK(log[k])

(***************************************************************************)
(* Claims on the sanitization                                              *)
(***************************************************************************)
Hallucinated(text) == HasToken(text, Denylist) \/ Lower(text) = <<"none">>

C17_EveryResultPersisted ==
    \A k \in 1..(Len(log) - 1) :
        log[k].act = "analyze" => GK(store[log[k].row]) = log[k].values

\* C17 (amended): the write of the result obtained for a record is made
\* before the cycle goes on (to the next record, or to its end by a crash or
\* a quota exit); a record whose write succeeded holds its result from then
\* on, a record whose write failed holds what it held.
C17_WriteBeforeNextCall ==
    \A k \in 1..Len(log) :
        (log[k].act = "analyze" /\ log[k].quota_at = 0) =>
            /\ log[k].write \in {"ok", "skipped", "raised"}
            /\ log[k].attempts >= 1
            /\ log[k].write = "ok" => GK(store[log[k].row]) = log[k].values
            /\ log[k].write # "ok" => GK(store[log[k].row]) = ReadGK(log[k])

\* the run crashed on the write of the second record after the result of
\* the first had been written
C17_Witness ==
    /\ run_pc = "crashed"
    /\ Len(log) = 2
    /\ log[1].act = "analyze" /\ log[1].calls >= 1 /\ log[1].write = "ok"
    /\ GK(store[1]) = log[1].values
    /\ log[2].write = "raised"

(***************************************************************************)
(* Claims on a run of main                                                 *)
(***************************************************************************)
SortSucceeded == \E k \in 1..Len(run_hist) : run_hist[k] = [step |-> "sort", ok |-> TRUE]
Dated(row) == parse_post_date(row.C) # 0
NonIncreasing(rows) ==
    \A i, j \in 1..Len(rows) :
        (i < j /\ Dated(rows[i]) /\ Dated(rows[j]))
            => parse_post_date(rows[i].C) >= parse_post_date(rows[j].C)
Enriching == run_pc \in {"analyze", "done", "exited"} /\ Len(data_rows) = Len(store)

C14_ReharvestedRowIsSubmitted ==
    Enriching =>
        \A k \in 1..Len(log) :
            log[k].act = "skip" =>
                ~( /\ IsContentFetched(data_rows[log[k].row])
                   /\ ReadGK(log[k]) = NoBodyValues )

\* C20: in the detail step, a row that held a harvested body when the step
\* read the store holds the same body afterwards, whatever the fetch
\* returned.
C20_HarvestedBodyKept ==
    run_pc \in {"detail_loop", "sort"} =>
        \A i \in 1..Len(data_rows) :
            IsContentFetched(data_rows[i]) => store[i].E = data_rows[i].E

\* the ways of placing the rows of a sheet of n rows in a sheet of m rows,
\* no two on the same row
Placements(n, m) ==
    { p \in [1..n -> 1..m] : \A i, j \in 1..n : p[i] = p[j] => i = j }
CF(row) == <<row.C, row.D, row.E, row.F>>
AF(row) == <<row.A, row.B>> \o CF(row)

\* C21: in every step of the pipeline, over any number of runs, each row of
\* the store is still a row of the store with the same URL and the same
\* title, and no row the step adds has the URL of a row that was there; a
\* step of the detail harvest keeps the rows in place and changes no cell
\* outside C..F (G..K stay as they were), and a step of the enrichment
\* keeps the rows in place and changes no cell outside G..K (A..F stay as
\* they were).
C21_RowIdentityKept ==
    [][ /\ \E p \in Placements(Len(store), Len(store')) :
              /\ \A i \in 1..Len(store) :
                    /\ store'[p[i]].A = store[i].A
                    /\ store'[p[i]].B = store[i].B
              /\ \A j \in 1..Len(store') :
                    (\A i \in 1..Len(store) : p[i] # j) =>
                        \A i \in 1..Len(store) : store'[j].A # store[i].A
        /\ run_pc \in {"details", "detail_loop"} =>
              /\ Len(store') = Len(store)
              /\ \A i \in 1..Len(store) :
                    /\ store'[i].A = store[i].A /\ store'[i].B = store[i].B
                    /\ GK(store'[i]) = GK(store[i])
        /\ run_pc \in {"start", "analyze"} =>
              /\ Len(store') = Len(store)
              /\ \A i \in 1..Len(store) : AF(store'[i]) = AF(store[i])
      ]_vars

\* in a second run the list harvest found again an article that the first
\* run appended, harvested and enriched, and appended nothing for it
C21_Witness ==
    /\ cycle = 2 /\ run_pc = "list"
    /\ Len(log) = 1 /\ log[1].appended = 0 /\ Len(log[1].articles) = 1
    /\ \E i \in 1..Len(store) :
          /\ store[i].A = log[1].articles[1].URL
          /\ store[i].A = ArticleUrl("a2")
          /\ IsContentFetched(store[i])
          /\ GK(store[i]) = FinalValues(A_ok)
    /\ Len(store) = 2

====
